---- MODULE Spec2Model ----
(***************************************************************************)
(* Model of the real-time connection registry and broadcast engine,        *)
(* src/src/services/websocket.ts (class WebSocketService).                 *)
(*                                                                         *)
(* Every event handler of the service runs to completion on the Node event *)
(* loop, so each handler is one atomic action.  The handlers call each     *)
(* other (authenticateClient -> joinRoom -> broadcastToRoom -> sendMessage)*)
(* and are modelled as operators from a service state record to a service  *)
(* state record; an action applies the handler's operator to the current   *)
(* state and stores the result.                                            *)
(*                                                                         *)
(* Time is counted in seconds: the source's 10000 ms and 30000 ms are 10   *)
(* and 30 here.  The service reads the clock only in the difference        *)
(* now - client.lastPing, so timestamps are kept on a clock whose origin   *)
(* is the latest heartbeat tick: a tick moves every stored lastPing back   *)
(* by the interval instead of moving now forward.                          *)
(***************************************************************************)
EXTENDS Integers, Sequences, FiniteSets, TLC

\* ------------------------------------------------------------------ bounds
MaxConns == 2
MaxUserEntries == 2
MaxRequests == 2

\* ------------------------------------------------------- program constants
HEARTBEAT_INTERVAL == 10
HEARTBEAT_TIMEOUT == 30

\* --------------------------------------------------------------- inputs
NONE == "none"
Users == {"u1", "u2"}
Roles == {"housekeeping", "guest"}
Rooms == {"101", "102"}
\* Date.now() at the latest heartbeat tick (the origin of the clock).
now == 0
\* Date.now() read by a handler that runs after the latest heartbeat tick and
\* before the next one is now + d for an offset d below the interval.
Offsets == {0, 5}

VARIABLES
    clients,          \* Map clientId -> ConnectedClient (without its ws)
    userConnections,  \* Map userId -> clientId[]
    roomConnections,  \* Map room -> clientId[], entries in insertion order
    ws,               \* readyState of the transport of every accepted id
    faulty,           \* ids whose transport raises an error on send
    listening,        \* the HTTP server accepts new connections
    requests,         \* the ticket requests of the HTTP API and their position
    persisted,        \* the requests whose database write has been committed
    removed,          \* ids for which removeClient has been invoked
    sent,             \* envelopes written by the latest handler, in order
    thrown,           \* the latest handler ended by raising an error
    last              \* the latest handler and its arguments

vars == <<clients, userConnections, roomConnections, ws, faulty, listening,
          requests, persisted, removed, sent, thrown, last>>

\* ------------------------------------------------------------ array helpers
RECURSIVE indexOf(_, _)
indexOf(arr, x) ==
    IF arr = <<>> THEN -1
    ELSE IF Head(arr) = x THEN 0
    ELSE LET i == indexOf(Tail(arr), x) IN IF i = -1 THEN -1 ELSE i + 1

includes(arr, x) == indexOf(arr, x) > -1

\* arr.splice(index, 1) with a 0-based index
splice1(arr, index) ==
    [i \in 1..(Len(arr) - 1) |-> IF i <= index THEN arr[i] ELSE arr[i + 1]]

Elems(arr) == {arr[i] : i \in 1..Len(arr)}

\* ------------------------------------------------ Map room -> clientId[]
\* A sequence of <<key, value>> entries in insertion order.
RoomKeys(rc) == {rc[i][1] : i \in 1..Len(rc)}

RoomGet(rc, room) ==
    IF room \in RoomKeys(rc)
    THEN rc[CHOOSE i \in 1..Len(rc) : rc[i][1] = room][2]
    ELSE <<>>

RoomSet(rc, room, conns) ==
    IF room \in RoomKeys(rc)
    THEN [i \in 1..Len(rc) |-> IF rc[i][1] = room THEN <<room, conns>> ELSE rc[i]]
    ELSE Append(rc, <<room, conns>>)

\* ------------------------------------------------ Map userId -> clientId[]
\* A function whose domain is the set of keys; its entries are never iterated.
UserGet(uc, userId) == IF userId \in DOMAIN uc THEN uc[userId] ELSE <<>>

UserSet(uc, userId, conns) ==
    [u \in DOMAIN uc \cup {userId} |-> IF u = userId THEN conns ELSE uc[u]]

UserDelete(uc, userId) == [u \in DOMAIN uc \ {userId} |-> uc[u]]

\* ---------------------------------------------------------------- envelopes
Envelope(type, text, userId, room) ==
    [type |-> type, text |-> text, userId |-> userId, room |-> room]

SystemMessage(text) == Envelope("system_message", text, NONE, NONE)

\* The service state the handlers read and write.  thrown: an exception is
\* propagating out of the handler, which skips the statements that follow.
State == [clients |-> clients, userConnections |-> userConnections,
          roomConnections |-> roomConnections, ws |-> ws, faulty |-> faulty,
          listening |-> listening, requests |-> requests,
          persisted |-> persisted, sent |-> <<>>, thrown |-> FALSE]

\* The live ids in the iteration order of this.clients: ids are handed out in
\* increasing order and never re-inserted, so insertion order is id order.
RECURSIVE ClientIdsFrom(_, _)
ClientIdsFrom(s, i) ==
    IF i > Len(s.ws) THEN <<>>
    ELSE IF i \in DOMAIN s.clients THEN <<i>> \o ClientIdsFrom(s, i + 1)
    ELSE ClientIdsFrom(s, i + 1)

ClientIds(s) == ClientIdsFrom(s, 1)

\* ---------------------------------------------------------------- dispatcher
\* sendMessage without its test of client.ws.readyState.
sendMessage_NoStateCheck(s, clientId, message) ==
    IF s.thrown THEN s
    ELSE IF clientId \in DOMAIN s.clients
    THEN IF clientId \in s.faulty
         THEN [s EXCEPT !.thrown = TRUE]
         ELSE [s EXCEPT !.sent = Append(@, [to |-> clientId, msg |-> message])]
    ELSE s

\* client.ws.send() is not guarded: an error it raises leaves sendMessage and
\* the loop that called it.
sendMessage(s, clientId, message) ==
    IF s.thrown THEN s
    ELSE IF clientId \in DOMAIN s.clients /\ s.ws[clientId] = "OPEN"
    THEN IF clientId \in s.faulty
         THEN [s EXCEPT !.thrown = TRUE]
         ELSE [s EXCEPT !.sent = Append(@, [to |-> clientId, msg |-> message])]
    ELSE s

sendError(s, clientId, error) == sendMessage(s, clientId, SystemMessage(error))

RECURSIVE forEachSend(_, _, _, _)
forEachSend(s, connections, message, excludeClientId) ==
    IF connections = <<>> THEN s
    ELSE LET clientId == Head(connections)
             s1 == IF clientId # excludeClientId
                   THEN sendMessage(s, clientId, message)
                   ELSE s
         IN forEachSend(s1, Tail(connections), message, excludeClientId)

broadcastToUser(s, userId, message) ==
    forEachSend(s, UserGet(s.userConnections, userId), message, 0)

\* broadcastToRoom without its clientId !== excludeClientId test.
broadcastToRoom_NoExclude(s, room, message, excludeClientId) ==
    forEachSend(s, RoomGet(s.roomConnections, room), message, 0)

broadcastToRoom(s, room, message, excludeClientId) ==
    forEachSend(s, RoomGet(s.roomConnections, room), message, excludeClientId)

RECURSIVE forEachRole(_, _, _, _)
forEachRole(s, ids, role, message) ==
    IF ids = <<>> THEN s
    ELSE LET clientId == Head(ids)
             s1 == IF s.clients[clientId].role = role
                   THEN sendMessage(s, clientId, message)
                   ELSE s
         IN forEachRole(s1, Tail(ids), role, message)

\* broadcastToRole testing only that the client has a role.
RECURSIVE forEachRole_AnyRole(_, _, _, _)
forEachRole_AnyRole(s, ids, role, message) ==
    IF ids = <<>> THEN s
    ELSE LET clientId == Head(ids)
             s1 == IF s.clients[clientId].role # NONE
                   THEN sendMessage(s, clientId, message)
                   ELSE s
         IN forEachRole_AnyRole(s1, Tail(ids), role, message)

broadcastToRole_AnyRole(s, role, message) ==
    forEachRole_AnyRole(s, ClientIds(s), role, message)

broadcastToRole(s, role, message) == forEachRole(s, ClientIds(s), role, message)

broadcastToAll(s, message) == forEachSend(s, ClientIds(s), message, 0)

\* ------------------------------------------------------------------ registry
\* joinRoom announcing the join to the joiner as well.
joinRoom_NotifiesJoiner(s, clientId, room) ==
    IF clientId \notin DOMAIN s.clients THEN s
    ELSE LET conns == RoomGet(s.roomConnections, room)
             s1 == IF ~includes(conns, clientId)
                   THEN [s EXCEPT !.roomConnections =
                            RoomSet(@, room, Append(conns, clientId))]
                   ELSE s
         IN broadcastToRoom(s1, room,
                Envelope("user_joined", NONE, s.clients[clientId].userId, room),
                0)

joinRoom(s, clientId, room) ==
    IF clientId \notin DOMAIN s.clients THEN s
    ELSE LET conns == RoomGet(s.roomConnections, room)
             s1 == IF ~includes(conns, clientId)
                   THEN [s EXCEPT !.roomConnections =
                            RoomSet(@, room, Append(conns, clientId))]
                   ELSE s
         IN broadcastToRoom(s1, room,
                Envelope("user_joined", NONE, s.clients[clientId].userId, room),
                clientId)

leaveRoom(s, clientId, room) ==
    LET conns == RoomGet(s.roomConnections, room)
        index == indexOf(conns, clientId)
        s1 == IF index > -1
              THEN [s EXCEPT !.roomConnections =
                       RoomSet(@, room, splice1(conns, index))]
              ELSE s
        userId == IF clientId \in DOMAIN s.clients
                  THEN s.clients[clientId].userId ELSE NONE
    IN broadcastToRoom(s1, room, Envelope("user_left", NONE, userId, room), 0)

\* authenticateClient acknowledging without the push onto the user's list.
authenticateClient_NoIndex(s, clientId, payload) ==
    IF clientId \notin DOMAIN s.clients THEN s
    ELSE LET s1 == [s EXCEPT
                      !.clients[clientId].userId = payload.userId,
                      !.clients[clientId].role = payload.role]
             s2 == IF payload.roomNumber # NONE
                   THEN joinRoom(s1, clientId, payload.roomNumber)
                   ELSE s1
         IN sendMessage(s2, clientId,
                Envelope("system_message", "Authentication successful",
                         payload.userId, NONE))

\* authenticateClient acknowledging before it joins the room.
authenticateClient_AckFirst(s, clientId, payload) ==
    IF clientId \notin DOMAIN s.clients THEN s
    ELSE LET s1 == [s EXCEPT
                      !.clients[clientId].userId = payload.userId,
                      !.clients[clientId].role = payload.role,
                      !.userConnections =
                          UserSet(@, payload.userId,
                                  Append(UserGet(@, payload.userId), clientId))]
             s2 == sendMessage(s1, clientId,
                       Envelope("system_message", "Authentication successful",
                                payload.userId, NONE))
         IN IF payload.roomNumber # NONE
            THEN joinRoom(s2, clientId, payload.roomNumber)
            ELSE s2

authenticateClient(s, clientId, payload) ==
    IF clientId \notin DOMAIN s.clients THEN s
    ELSE LET s1 == [s EXCEPT
                      !.clients[clientId].userId = payload.userId,
                      !.clients[clientId].role = payload.role,
                      !.userConnections =
                          UserSet(@, payload.userId,
                                  Append(UserGet(@, payload.userId), clientId))]
             s2 == IF payload.roomNumber # NONE
                   THEN joinRoom(s1, clientId, payload.roomNumber)
                   ELSE s1
         IN sendMessage(s2, clientId,
                Envelope("system_message", "Authentication successful",
                         payload.userId, NONE))

\* removeFromRooms building its user_left without the userId of the client.
RECURSIVE removeFromRooms_Anonymous(_, _, _)
removeFromRooms_Anonymous(s, clientId, i) ==
    IF i > Len(s.roomConnections) THEN s
    ELSE LET room == s.roomConnections[i][1]
             connections == s.roomConnections[i][2]
             index == indexOf(connections, clientId)
             s1 == IF index > -1
                   THEN broadcastToRoom(
                            [s EXCEPT !.roomConnections =
                                RoomSet(@, room, splice1(connections, index))],
                            room, Envelope("user_left", NONE, NONE, room), 0)
                   ELSE s
         IN removeFromRooms_Anonymous(s1, clientId, i + 1)

\* The loop of removeClient over this.roomConnections.entries(), from entry i.
RECURSIVE removeFromRooms(_, _, _)
removeFromRooms(s, clientId, i) ==
    IF i > Len(s.roomConnections) THEN s
    ELSE LET room == s.roomConnections[i][1]
             connections == s.roomConnections[i][2]
             index == indexOf(connections, clientId)
             s1 == IF index > -1
                   THEN broadcastToRoom(
                            [s EXCEPT !.roomConnections =
                                RoomSet(@, room, splice1(connections, index))],
                            room,
                            Envelope("user_left", NONE,
                                     s.clients[clientId].userId, room),
                            0)
                   ELSE s
         IN removeFromRooms(s1, clientId, i + 1)

\* removeFromUser dropping the whole list of the user of the removed client.
removeFromUser_DeletesKey(s, clientId) ==
    LET userId == s.clients[clientId].userId
    IN IF userId # NONE /\ includes(UserGet(s.userConnections, userId), clientId)
       THEN [s EXCEPT !.userConnections = UserDelete(@, userId)]
       ELSE s

removeFromUser(s, clientId) ==
    LET userId == s.clients[clientId].userId
        conns == UserGet(s.userConnections, userId)
        index == indexOf(conns, clientId)
    IN IF userId # NONE /\ index > -1
       THEN IF Len(conns) = 1
            THEN [s EXCEPT !.userConnections = UserDelete(@, userId)]
            ELSE [s EXCEPT !.userConnections =
                     UserSet(@, userId, splice1(conns, index))]
       ELSE s

\* removeClient without its this.clients.delete(clientId).
removeClient_KeepsClient(s, clientId) ==
    IF clientId \notin DOMAIN s.clients THEN s
    ELSE removeFromRooms(removeFromUser(s, clientId), clientId, 1)

removeClient(s, clientId) ==
    IF clientId \notin DOMAIN s.clients THEN s
    ELSE LET s1 == removeFromUser(s, clientId)
             s2 == removeFromRooms(s1, clientId, 1)
         IN [s2 EXCEPT !.clients =
                [c \in DOMAIN s2.clients \ {clientId} |-> s2.clients[c]]]

\* ------------------------------------------------------------- liveness
\* client.ws.terminate(): the socket is destroyed; its 'close' event follows.
terminate(s, clientId) ==
    IF s.ws[clientId] = "CLOSED" THEN s
    ELSE [s EXCEPT !.ws[clientId] = "CLOSING"]

\* client.ws.ping(): a probe frame is written when the transport is open.
ping(s, clientId) ==
    IF s.ws[clientId] = "OPEN"
    THEN [s EXCEPT !.sent = Append(@, [to |-> clientId,
                                    msg |-> Envelope("ping_frame", NONE, NONE, NONE)])]
    ELSE s

\* The timeout test with >= for >.
TimedOut_Inclusive(t, lastPing) == t - lastPing >= HEARTBEAT_TIMEOUT

TimedOut(t, lastPing) == t - lastPing > HEARTBEAT_TIMEOUT

\* The heartbeat leaving the removal of a timed-out client to its 'close'.
RECURSIVE heartbeat_TerminateOnly(_, _, _)
heartbeat_TerminateOnly(s, ids, t) ==
    IF ids = <<>> THEN s
    ELSE LET clientId == Head(ids)
             s1 == IF TimedOut(t, s.clients[clientId].lastPing)
                   THEN terminate(s, clientId)
                   ELSE ping(s, clientId)
         IN heartbeat_TerminateOnly(s1, Tail(ids), t)

\* The body of the setInterval callback, over the entries of this.clients.
RECURSIVE heartbeat(_, _, _)
heartbeat(s, ids, t) ==
    IF ids = <<>> THEN s
    ELSE LET clientId == Head(ids)
             s1 == IF TimedOut(t, s.clients[clientId].lastPing)
                   THEN removeClient(terminate(s, clientId), clientId)
                   ELSE ping(s, clientId)
         IN heartbeat(s1, Tail(ids), t)

\* ------------------------------------------------------------ observability
\* The reduce of getStats over this.clients.values(): a role has a key only
\* when some client carries it.
connectionsByRole(s) ==
    [r \in {s.clients[c].role : c \in DOMAIN s.clients} \ {NONE} |->
        Cardinality({c \in DOMAIN s.clients : s.clients[c].role = r})]

\* getStats counting the connections ever accepted as totalConnections.
getStats_CountsAccepted(s) ==
    [totalConnections |-> Len(s.ws),
     authenticatedUsers |-> Cardinality(DOMAIN s.userConnections),
     activeRooms |-> Len(s.roomConnections),
     connectionsByRole |-> connectionsByRole(s)]

getStats(s) ==
    [totalConnections |-> Cardinality(DOMAIN s.clients),
     authenticatedUsers |-> Cardinality(DOMAIN s.userConnections),
     activeRooms |-> Len(s.roomConnections),
     connectionsByRole |-> connectionsByRole(s)]

\* ------------------------------------------------------ inbound messages
Message(type, hasPayload, userId, role, room) ==
    [type |-> type, hasPayload |-> hasPayload, userId |-> userId,
     role |-> role, room |-> room]

\* The identities clients authenticate with: <<userId, role, roomNumber>>.
Identities ==
    {<<"u1", "housekeeping", NONE>>, <<"u1", "guest", "101">>,
     <<"u2", "housekeeping", "101">>, <<"u2", "housekeeping", NONE>>}

\* authenticate{userId, role, roomNumber?}, join_room{room}, leave_room{room},
\* each also without its payload; ping; a message of another type; and data
\* that JSON.parse rejects.
Messages ==
    {Message("authenticate", TRUE, p[1], p[2], p[3]) : p \in Identities}
    \cup {Message(t, TRUE, NONE, NONE, rm) :
        t \in {"join_room", "leave_room"}, rm \in Rooms}
    \cup {Message(t, FALSE, NONE, NONE, NONE) :
        t \in {"authenticate", "join_room", "leave_room"}}
    \cup {Message(t, TRUE, NONE, NONE, NONE) :
        t \in {"ping", "other", "unparseable"}}

\* handleMessage without its return for a client that is not registered.
handleMessage_NoClientCheck(s, clientId, message) ==
    CASE message.type = "authenticate" ->
            authenticateClient(s, clientId,
                [userId |-> message.userId, role |-> message.role,
                 roomNumber |-> message.room])
      [] message.type = "join_room" -> joinRoom(s, clientId, message.room)
      [] message.type = "leave_room" -> leaveRoom(s, clientId, message.room)
      [] message.type = "ping" -> sendMessage(s, clientId, SystemMessage("pong"))
      [] OTHER -> s

\* handleMessage treating a ping message as a sign of life.
handleMessage_PingRefreshes(s, clientId, message) ==
    IF clientId \notin DOMAIN s.clients THEN s
    ELSE CASE message.type = "authenticate" ->
                authenticateClient(s, clientId,
                    [userId |-> message.userId, role |-> message.role,
                     roomNumber |-> message.room])
           [] message.type = "join_room" -> joinRoom(s, clientId, message.room)
           [] message.type = "leave_room" -> leaveRoom(s, clientId, message.room)
           [] message.type = "ping" ->
                sendMessage([s EXCEPT !.clients[clientId].lastPing = now],
                            clientId, SystemMessage("pong"))
           [] OTHER -> s

handleMessage(s, clientId, message) ==
    IF clientId \notin DOMAIN s.clients THEN s
    ELSE CASE message.type = "authenticate" ->
                authenticateClient(s, clientId,
                    [userId |-> message.userId, role |-> message.role,
                     roomNumber |-> message.room])
           [] message.type = "join_room" -> joinRoom(s, clientId, message.room)
           [] message.type = "leave_room" -> leaveRoom(s, clientId, message.room)
           [] message.type = "ping" -> sendMessage(s, clientId, SystemMessage("pong"))
           [] OTHER -> s

\* The handler throws before it has changed anything: JSON.parse on bad data,
\* message.payload.room or payload.userId on a missing payload.
\* Throws for a handler that reads the room as message.payload?.room.
Throws_OptionalRoom(s, clientId, message) ==
    \/ message.type = "unparseable"
    \/ /\ clientId \in DOMAIN s.clients
       /\ message.type = "authenticate"
       /\ ~message.hasPayload

Throws(s, clientId, message) ==
    \/ message.type = "unparseable"
    \/ /\ clientId \in DOMAIN s.clients
       /\ message.type \in {"authenticate", "join_room", "leave_room"}
       /\ ~message.hasPayload

onMessage(s, clientId, message) ==
    IF Throws(s, clientId, message)
    THEN sendError(s, clientId, "Invalid message format")
    ELSE handleMessage(s, clientId, message)

\* ------------------------------------------------------------------ actions
Op(op, c, userId, role, room, live) ==
    [op |-> op, c |-> c, userId |-> userId, role |-> role, room |-> room,
     live |-> live]

\* The handler's result r is computed once and becomes the next state.
Commit(s, op) ==
    /\ last' = op
    /\ \E r \in {s} :
          /\ clients' = r.clients
          /\ userConnections' = r.userConnections
          /\ roomConnections' = r.roomConnections
          /\ ws' = r.ws
          /\ faulty' = r.faulty
          /\ listening' = r.listening
          /\ requests' = r.requests
          /\ persisted' = r.persisted
          /\ sent' = r.sent
          /\ thrown' = r.thrown

Accepted == 1..Len(ws)

Init ==
    /\ clients = <<>>
    /\ userConnections = <<>>
    /\ roomConnections = <<>>
    /\ ws = <<>>
    /\ faulty = {}
    /\ listening = TRUE
    /\ requests = <<>>
    /\ persisted = {}
    /\ removed = {}
    /\ sent = <<>>
    /\ thrown = FALSE
    /\ last = Op("init", 0, NONE, NONE, NONE, FALSE)

\* Ids handed out from a pool that takes back the ids of removed clients.
NewClientId_Reused ==
    IF \E i \in Accepted : i \notin DOMAIN clients
    THEN CHOOSE i \in Accepted : i \notin DOMAIN clients
    ELSE Len(ws) + 1

\* uuidv4(): an id no accepted connection has had.
NewClientId == Len(ws) + 1

\* wss.on('connection')
OnConnection(D) ==
    /\ listening
    /\ Len(ws) < MaxConns
    /\ \E d \in D :
        LET clientId == NewClientId
            s1 == [State EXCEPT
                     !.ws = Append(@, "OPEN"),
                     !.clients = [c \in DOMAIN @ \cup {clientId} |->
                         IF c = clientId
                         THEN [userId |-> NONE, role |-> NONE,
                               lastPing |-> now + d]
                         ELSE @[c]]]
            s2 == sendMessage(s1, clientId,
                      SystemMessage("Connected to LionKey AI WebSocket server"))
        IN Commit(s2, Op("connection", clientId, NONE, NONE, NONE, FALSE))
    /\ UNCHANGED removed

\* The number of ids held in the arrays of the user index.
RECURSIVE SumLen(_, _)
SumLen(uc, keys) ==
    IF keys = {} THEN 0
    ELSE LET k == CHOOSE x \in keys : TRUE
         IN Len(uc[k]) + SumLen(uc, keys \ {k})

UserEntries(uc) == SumLen(uc, DOMAIN uc)

\* ws.on('message')
OnMessage(M) ==
    \E c \in Accepted, m \in M :
        /\ ws[c] # "CLOSED"
        /\ m.type = "authenticate" /\ m.hasPayload
              => UserEntries(userConnections) < MaxUserEntries
        /\ Commit(onMessage(State, c, m),
                  Op(m.type, c, m.userId, m.role, m.room, c \in DOMAIN clients))
        /\ UNCHANGED removed

\* ws.on('close')
OnClose ==
    \E c \in Accepted :
        /\ ws[c] # "CLOSED"
        /\ Commit(removeClient([State EXCEPT !.ws[c] = "CLOSED"], c),
                  Op("close", c, NONE, NONE, NONE, c \in DOMAIN clients))
        /\ removed' = removed \cup {c}

\* ws.on('error'): the transport is closing when the event is emitted.
OnError ==
    \E c \in Accepted :
        /\ ws[c] # "CLOSED"
        /\ Commit(removeClient([State EXCEPT !.ws[c] = "CLOSING"], c),
                  Op("error", c, NONE, NONE, NONE, c \in DOMAIN clients))
        /\ removed' = removed \cup {c}

\* The pong handler without its assignment to client.lastPing.
OnPong_NoRefresh(D) ==
    \E c \in Accepted, d \in D :
        /\ ws[c] = "OPEN"
        /\ Commit(State, Op("pong", c, NONE, NONE, NONE, c \in DOMAIN clients))
        /\ UNCHANGED removed

\* ws.on('pong')
OnPong(D) ==
    \E c \in Accepted, d \in D :
        /\ ws[c] = "OPEN"
        /\ Commit(IF c \in DOMAIN clients
                  THEN [State EXCEPT !.clients[c].lastPing = now + d]
                  ELSE State,
                  Op("pong", c, NONE, NONE, NONE, c \in DOMAIN clients))
        /\ UNCHANGED removed

\* The clock origin moves to the tick that fires now.
Elapse(s) ==
    [s EXCEPT !.clients = [c \in DOMAIN @ |->
        [@[c] EXCEPT !.lastPing = @ - HEARTBEAT_INTERVAL]]]

\* The setInterval callback of startHeartbeat.
Tick ==
    /\ Commit(heartbeat(Elapse(State), ClientIds(State), now),
              Op("tick", 0, NONE, NONE, NONE, FALSE))
    /\ removed' = removed \cup
          {c \in DOMAIN clients :
              TimedOut(now, clients[c].lastPing - HEARTBEAT_INTERVAL)}

\* The peer starts the closing handshake, or the local side has called
\* close(): the transport leaves OPEN before its 'close' event is emitted.
TransportClosing ==
    \E c \in Accepted :
        /\ ws[c] = "OPEN"
        /\ Commit([State EXCEPT !.ws[c] = "CLOSING"],
                  Op("closing", c, NONE, NONE, NONE, c \in DOMAIN clients))
        /\ UNCHANGED removed

\* The transport of an open connection starts to raise an error on send.
SendBreaks ==
    \E c \in Accepted :
        /\ ws[c] = "OPEN"
        /\ c \notin faulty
        /\ Commit([State EXCEPT !.faulty = @ \cup {c}],
                  Op("send_breaks", c, NONE, NONE, NONE, c \in DOMAIN clients))
        /\ UNCHANGED removed

\* process.on('SIGTERM') / process.on('SIGINT'): server.close() stops the
\* server from accepting connections; its callback, which exits the process,
\* runs once no connection is left.  The variant of the entry point that also
\* calls wss.close() terminates every client in the versions of the ws
\* package where close() does so (all), and none in the others.
Shutdown ==
    \E all \in BOOLEAN :
        /\ listening
        /\ Commit([State EXCEPT
                      !.listening = FALSE,
                      !.ws = [c \in DOMAIN @ |->
                                IF all /\ @[c] = "OPEN" THEN "CLOSING" ELSE @[c]]],
                  Op("shutdown", 0, NONE, NONE, NONE, all))
        /\ UNCHANGED removed

\* The calls of the application producers.
Payload == Envelope("ticket_update", NONE, NONE, NONE)

\* sendMessage called with any id: of a registered connection, of a removed
\* one, or one that was never handed out.
SendMessage ==
    \E c \in 1..(MaxConns + 1) :
        /\ Commit(sendMessage(State, c, Payload),
                  Op("sendMessage", c, NONE, NONE, NONE, c \in DOMAIN clients))
        /\ UNCHANGED removed

BroadcastToUser ==
    \E u \in Users :
        /\ Commit(broadcastToUser(State, u, Payload),
                  Op("broadcastToUser", 0, u, NONE, NONE, FALSE))
        /\ UNCHANGED removed

BroadcastToRoom ==
    \E r \in Rooms, x \in {0} \cup Accepted :
        /\ Commit(broadcastToRoom(State, r, Payload, x),
                  Op("broadcastToRoom", x, NONE, NONE, r, FALSE))
        /\ UNCHANGED removed

BroadcastToRole ==
    \E r \in Roles :
        /\ Commit(broadcastToRole(State, r, Payload),
                  Op("broadcastToRole", 0, NONE, r, NONE, FALSE))
        /\ UNCHANGED removed

BroadcastToAll ==
    /\ Commit(broadcastToAll(State, Payload),
              Op("broadcastToAll", 0, NONE, NONE, NONE, FALSE))
    /\ UNCHANGED removed

\* ------------------------------------------------------ ticket producers
\* createTicket, updateTicketStatus and assignTicket are async handlers: each
\* runs up to its await of the prisma write, the database commits or rejects
\* the write, and the handler resumes after the await.
TicketUpdate(action) == Envelope("ticket_update", action, NONE, NONE)

ProducerOps == {"createTicket", "updateTicketStatus", "assignTicket"}

\* The handler up to its await: an early return on invalid input, or the
\* prisma write issued.
startRequest(s, kind, assigned_to, valid) ==
    [s EXCEPT !.requests =
        Append(@, [kind |-> kind, assigned_to |-> assigned_to,
                   pc |-> IF valid THEN "writing" ELSE "rejected"])]

\* The database settles the write of request r.
prismaWrite(s, r, ok) ==
    IF ok
    THEN [s EXCEPT !.requests[r].pc = "written", !.persisted = @ \cup {r}]
    ELSE [s EXCEPT !.requests[r].pc = "failed"]

\* The notification of each handler after its write.
notify(s, r) ==
    CASE s.requests[r].kind = "createTicket" ->
            broadcastToRole(s, "housekeeping", TicketUpdate("created"))
      [] s.requests[r].kind = "updateTicketStatus" ->
            broadcastToRole(s, "housekeeping", TicketUpdate("status_updated"))
      [] s.requests[r].kind = "assignTicket" ->
            broadcastToUser(s, s.requests[r].assigned_to, TicketUpdate("assigned"))

\* resumeRequest with the notification in a finally block.
resumeRequest_NotifiesAlways(s, r) ==
    [notify(s, r) EXCEPT !.requests[r].pc =
        IF s.requests[r].pc = "written" THEN "notified" ELSE "error"]

\* The handler after its await: the notification and the response when the
\* write succeeded, catch and next(error) when it was rejected.
resumeRequest(s, r) ==
    IF s.requests[r].pc = "written"
    THEN [notify(s, r) EXCEPT !.requests[r].pc = "notified"]
    ELSE [s EXCEPT !.requests[r].pc = "error"]

CreateTicket ==
    /\ Len(requests) < MaxRequests
    /\ \E valid \in BOOLEAN :
          Commit(startRequest(State, "createTicket", NONE, valid),
                 Op("request", Len(requests) + 1, NONE, NONE, NONE, valid))
    /\ UNCHANGED removed

UpdateTicketStatus ==
    /\ Len(requests) < MaxRequests
    /\ \E valid \in BOOLEAN :
          Commit(startRequest(State, "updateTicketStatus", NONE, valid),
                 Op("request", Len(requests) + 1, NONE, NONE, NONE, valid))
    /\ UNCHANGED removed

AssignTicket ==
    /\ Len(requests) < MaxRequests
    /\ \E valid \in BOOLEAN, u \in Users :
          Commit(startRequest(State, "assignTicket", u, valid),
                 Op("request", Len(requests) + 1, u, NONE, NONE, valid))
    /\ UNCHANGED removed

PrismaWrite ==
    \E r \in 1..Len(requests), ok \in BOOLEAN :
        /\ requests[r].pc = "writing"
        /\ Commit(prismaWrite(State, r, ok),
                  Op("prisma", r, NONE, NONE, NONE, ok))
        /\ UNCHANGED removed

ResumeRequest ==
    \E r \in 1..Len(requests) :
        /\ requests[r].pc \in {"written", "failed"}
        /\ Commit(resumeRequest(State, r),
                  Op(requests[r].kind, r, requests[r].assigned_to, NONE, NONE,
                     requests[r].pc = "written"))
        /\ UNCHANGED removed

\* ------------------------------------------------------ specifications
\* The state space of the whole service is explored in four slices, each
\* with every operation of its subject and inputs wide enough for its cases.

\* Identities and one room: every inbound message whose room is "101" or absent.
RegistryMessages == {m \in Messages : m.room \in {NONE, "101"}}

\* The registry and the dispatcher between two heartbeat ticks.
Next ==
    \/ OnConnection({now})
    \/ OnMessage(RegistryMessages)
    \/ OnClose
    \/ OnError
    \/ TransportClosing
    \/ BroadcastToUser
    \/ BroadcastToRoom
    \/ BroadcastToRole
    \/ BroadcastToAll

Spec == Init /\ [][Next]_vars

\* Anonymous connections in two rooms.
RoomMessages == {m \in Messages : m.type \in {"join_room", "leave_room", "ping"}}

RoomNext ==
    \/ OnConnection({now})
    \/ OnMessage(RoomMessages)
    \/ OnClose
    \/ TransportClosing
    \/ BroadcastToRoom

RoomSpec == Init /\ [][RoomNext]_vars

\* The liveness monitor: the clock, probes and replies, with room peers.
HeartbeatMessages ==
    {m \in Messages : (m.type = "join_room" /\ m.hasPayload) \/ m.type = "ping"}

HeartbeatNext ==
    \/ OnConnection(Offsets)
    \/ OnMessage(HeartbeatMessages)
    \/ OnPong(Offsets)
    \/ Tick
    \/ OnClose
    \/ TransportClosing

HeartbeatSpec == Init /\ [][HeartbeatNext]_vars

\* A tick changes the state unless the registry is empty and the latest
\* handler was a tick that wrote nothing.
TickIdle == DOMAIN clients = {} /\ last.op = "tick" /\ sent = <<>>

\* The interval timer keeps firing: weak fairness of Tick, WF_vars(Tick),
\* written out with TickIdle for the states where a tick is no step.
TimerFires == []<>TickIdle \/ []<><<last'.op = "tick">>_vars

FairHeartbeatSpec == HeartbeatSpec /\ TimerFires

\* Every way a connection is destroyed: close, error and eviction.
LifecycleMessages ==
    {m \in Messages :
        \/ m.type = "join_room" /\ m.room = "101"
        \/ m.type = "authenticate" /\ m.userId = "u1" /\ m.room = NONE}

LifecycleNext ==
    \/ OnConnection({now})
    \/ OnMessage(LifecycleMessages)
    \/ OnPong({now})
    \/ Tick
    \/ OnClose
    \/ OnError
    \/ TransportClosing

LifecycleSpec == Init /\ [][LifecycleNext]_vars

\* Room membership changes by request and by eviction.
NotifyNext ==
    \/ OnConnection({now})
    \/ OnMessage(RoomMessages)
    \/ OnPong({now})
    \/ Tick
    \/ OnClose
    \/ TransportClosing

NotifySpec == Init /\ [][NotifyNext]_vars

\* The destruction of a connection among its peers, with the heartbeat and a
\* broadcast running on.
IsolationNext ==
    \/ LifecycleNext
    \/ BroadcastToAll

IsolationSpec == Init /\ [][IsolationNext]_vars

\* Broadcasts over transports that fail on send, after the registrations.
FaultMessages ==
    {m \in Messages :
        \/ m.type = "join_room" /\ m.room = "101" /\ m.hasPayload
        \/ m.type = "authenticate" /\ m.role = "housekeeping"}

FaultNext ==
    \/ OnConnection({now})
    \/ (faulty = {} /\ OnMessage(FaultMessages))
    \/ SendBreaks
    \/ BroadcastToUser
    \/ BroadcastToRoom
    \/ BroadcastToRole
    \/ BroadcastToAll

FaultSpec == Init /\ [][FaultNext]_vars

\* Single sends to ids in every condition: unknown, removed, closing, failing.
SendNext ==
    \/ OnConnection({now})
    \/ (faulty = {} /\ OnMessage(LifecycleMessages))
    \/ (faulty = {} /\ OnClose)
    \/ (faulty = {} /\ OnError)
    \/ TransportClosing
    \/ SendBreaks
    \/ SendMessage

SendSpec == Init /\ [][SendNext]_vars

\* The service around a shutdown of the process.
ShutdownNext ==
    \/ OnConnection({now})
    \/ OnMessage(LifecycleMessages)
    \/ OnClose
    \/ Tick
    \/ Shutdown
    \/ BroadcastToUser
    \/ BroadcastToAll

ShutdownSpec == Init /\ [][ShutdownNext]_vars

\* The ticket producers and the connections they notify.
ProducerMessages ==
    {m \in Messages : m.type = "authenticate" /\ m.hasPayload /\ m.room = NONE}

ProducerNext ==
    \/ OnConnection({now})
    \/ OnMessage(ProducerMessages)
    \/ OnClose
    \/ CreateTicket
    \/ UpdateTicketStatus
    \/ AssignTicket
    \/ PrismaWrite
    \/ ResumeRequest

ProducerSpec == Init /\ [][ProducerNext]_vars

\* Events that arrive for a connection after its removal.
StaleMessages ==
    {m \in Messages :
        /\ m.room \in {NONE, "101"}
        /\ m.type = "authenticate" /\ m.hasPayload
              => (m.userId = "u1" /\ m.room = "101")}

StaleNext ==
    \/ OnConnection({now})
    \/ OnMessage(StaleMessages)
    \/ OnPong({now})
    \/ Tick
    \/ OnClose
    \/ OnError

StaleSpec == Init /\ [][StaleNext]_vars

\* ------------------------------------------------------------ properties
UserList(u) == UserGet(userConnections, u)
RoomList(r) == RoomGet(roomConnections, r)

BroadcastOps == {"broadcastToUser", "broadcastToRoom", "broadcastToRole",
                 "broadcastToAll"}
RemovalOps == {"close", "error"}

\* The envelopes of the latest handler written to connection c.
SentTo(log, c) == {i \in 1..Len(log) : log[i].to = c}

\* How many envelopes of a type about a room the latest handler wrote to c.
CountSent(log, c, type, room) ==
    Cardinality({i \in SentTo(log, c) :
                    log[i].msg.type = type /\ log[i].msg.room = room})

NoneOfType(log, type) == \A i \in 1..Len(log) : log[i].msg.type # type

\* C1: for every live connection c and every userId u, c is listed in the
\* user index under u iff u is c's bound userId; so broadcastToUser(u, m)
\* writes m only to connections whose bound userId is u.
C1_UserIndexMatchesIdentity ==
    /\ \A c \in DOMAIN clients : \A u \in Users :
          includes(UserList(u), c) <=> clients[c].userId = u
    /\ last.op = "broadcastToUser" =>
          \A i \in 1..Len(sent) : clients[sent[i].to].userId = last.userId

\* C2: every connection id found in the user index or in the room index is a
\* key of the primary clients map, so a removed connection is in no index.
C2_IndicesHoldOnlyLiveConnections ==
    /\ \A u \in DOMAIN userConnections :
          Elems(userConnections[u]) \subseteq DOMAIN clients
    /\ \A i \in 1..Len(roomConnections) :
          Elems(roomConnections[i][2]) \subseteq DOMAIN clients

\* C3: a broadcast call writes its envelope to each connection at most once.
C3_AtMostOncePerBroadcast ==
    last.op \in BroadcastOps =>
        \A c \in Accepted : Cardinality(SentTo(sent, c)) <= 1

\* C4: every key of the user index and of the room index maps to a non-empty
\* list.
C4_NoEmptyIndexEntry ==
    /\ \A u \in DOMAIN userConnections : userConnections[u] # <<>>
    /\ \A i \in 1..Len(roomConnections) : roomConnections[i][2] # <<>>

\* C5: the number of live connections equals the number of accepts minus the
\* number of distinct connections removed, is never negative, and a repeated
\* removal of one id does not decrement it again.
C5_LiveCount ==
    /\ Cardinality(DOMAIN clients) = Len(ws) - Cardinality(removed)
    /\ Cardinality(DOMAIN clients) >= 0
    /\ DOMAIN clients = Accepted \ removed

\* A removal has run for a connection that was already removed, while another
\* connection is live.
C5_RepeatedRemoval ==
    /\ last.op \in RemovalOps
    /\ ~last.live
    /\ last.c \in removed
    /\ DOMAIN clients # {}

\* C6: a connection with no bound identity receives no envelope of a
\* broadcastToUser, broadcastToRoom or broadcastToRole call.
C6_UnauthenticatedNotTargeted ==
    last.op \in {"broadcastToUser", "broadcastToRoom", "broadcastToRole"} =>
        \A i \in 1..Len(sent) : clients[sent[i].to].userId # NONE

\* C7: leave_room for a room the sender is not a member of leaves the room
\* index unchanged, produces no error and sends no user_left envelope.
C7_LeaveRoomIdempotent ==
    [][(/\ last'.op = "leave_room"
        /\ last'.room # NONE
        /\ last'.live
        /\ ~includes(RoomList(last'.room), last'.c))
       => (/\ roomConnections' = roomConnections
           /\ NoneOfType(sent', "user_left")
           /\ NoneOfType(sent', "system_message"))]_vars

\* C8: join_room for a room the sender has already joined leaves the room
\* index unchanged and sends no user_joined envelope.
C8_JoinRoomIdempotent ==
    [][(/\ last'.op = "join_room"
        /\ last'.room # NONE
        /\ last'.live
        /\ includes(RoomList(last'.room), last'.c))
       => (/\ roomConnections' = roomConnections
           /\ NoneOfType(sent', "user_joined"))]_vars

\* The connections the tick that fires now evicts.
Evicted ==
    {c \in DOMAIN clients :
        now + HEARTBEAT_INTERVAL - clients[c].lastPing > HEARTBEAT_TIMEOUT}

\* The evictions of this tick that member m of room r is told about: those of
\* the other members evicted while m is still registered (the tick visits the
\* connections in the order of their ids).
EvictionsSeenBy(m, r) ==
    IF m \in DOMAIN clients /\ ws[m] = "OPEN" /\ includes(RoomList(r), m)
    THEN {c \in Evicted : /\ includes(RoomList(r), c)
                          /\ c # m
                          /\ m \in Evicted => c < m}
    ELSE {}

\* C9, at the eviction: the transport is terminated, the connection is gone
\* from the primary map and from every room, and each remaining open member
\* of each of its rooms is written exactly one user_left for that room.
C9_EvictionEffects ==
    [][last'.op = "tick" =>
        /\ \A c \in Evicted :
              /\ ws'[c] = "CLOSING"
              /\ c \notin DOMAIN clients'
              /\ \A i \in 1..Len(roomConnections') :
                    ~includes(roomConnections'[i][2], c)
        /\ DOMAIN clients' = DOMAIN clients \ Evicted
        /\ \A m \in Accepted : \A r \in Rooms :
              CountSent(sent', m, "user_left", r)
                  = Cardinality(EvictionsSeenBy(m, r))]_vars

\* C9, eventually: a live connection either has a pong processed again or
\* stops being registered, while the timer keeps firing.
C9_EventuallyEvicted ==
    \A c \in 1..MaxConns :
        (c \in DOMAIN clients)
            ~> (c \notin DOMAIN clients \/ (last.op = "pong" /\ last.c = c))

\* C9: a connection that stops answering probes is eventually evicted by the
\* heartbeat, with the effects above.
C9_SilentConnectionEvicted == C9_EvictionEffects /\ C9_EventuallyEvicted

\* A tick has evicted a member of both rooms and told an open peer about each.
C9_EvictionWithPeers ==
    /\ last.op = "tick"
    /\ \E m \in DOMAIN clients :
          /\ CountSent(sent, m, "user_left", "101") = 1
          /\ CountSent(sent, m, "user_left", "102") = 1
    /\ \E c \in removed : ws[c] = "CLOSING"

\* C10: a removal triggered for a connection that is already removed changes
\* neither the primary map nor an index and sends nothing; every removal
\* leaves its connection unregistered; a removed id never becomes live again.
C10_DestructionFinal ==
    /\ [][(last'.op \in RemovalOps /\ last'.c \notin DOMAIN clients)
          => (/\ clients' = clients
              /\ userConnections' = userConnections
              /\ roomConnections' = roomConnections
              /\ sent' = <<>>)]_vars
    /\ [][last'.op \in RemovalOps => last'.c \notin DOMAIN clients']_vars
    /\ [][\A c \in Accepted : c \notin DOMAIN clients
                                  => c \notin DOMAIN clients']_vars

\* A 'close' has arrived for a connection that an eviction or an 'error' had
\* already removed, with another connection still in both indices.
C10_SecondRemoval ==
    /\ last.op = "close"
    /\ ~last.live
    /\ \E c \in DOMAIN clients :
          /\ includes(UserList("u1"), c)
          /\ includes(RoomList("101"), c)

\* C11: an inbound message that is unparseable or of a type other than
\* authenticate, join_room, leave_room and ping gets exactly one system_message
\* error reply to its sender, nothing to any other connection, and leaves the
\* sender registered with its identity and room memberships unchanged.
C11_ProtocolErrorReply ==
    [][(/\ last'.op \in {"other", "unparseable"}
        /\ last'.live
        /\ ws[last'.c] = "OPEN")
       => (/\ Len(sent') = 1
           /\ sent'[1].to = last'.c
           /\ sent'[1].msg.type = "system_message"
           /\ clients' = clients
           /\ userConnections' = userConnections
           /\ roomConnections' = roomConnections)]_vars

\* The connections a broadcast call is addressed to.
Targets(call) ==
    CASE call.op = "broadcastToUser" -> Elems(UserList(call.userId))
      [] call.op = "broadcastToRoom" -> Elems(RoomList(call.room)) \ {call.c}
      [] call.op = "broadcastToRole" ->
            {c \in DOMAIN clients : clients[c].role = call.role}
      [] call.op = "broadcastToAll" -> DOMAIN clients
      [] OTHER -> {}

\* C12: in a broadcast call, a send that raises an error on one target does
\* not keep the envelope from any other target: every registered target with
\* an open, working transport is written the envelope.
C12_WriteFailureIsolated ==
    last.op \in BroadcastOps =>
        \A c \in Targets(last) \cap DOMAIN clients :
            (ws[c] = "OPEN" /\ c \notin faulty) => SentTo(sent, c) # {}

\* C13: broadcastToRoom(r, m, x) writes m to exactly the connections that are
\* members of r at call time, have an open transport and are not x; x and
\* every non-member are written nothing by the call.
C13_RoomBroadcastTargets ==
    [][last'.op = "broadcastToRoom" =>
        /\ \A c \in Accepted :
              SentTo(sent', c) # {}
                  <=> (/\ includes(RoomList(last'.room), c)
                       /\ ws[c] = "OPEN"
                       /\ c # last'.c)
        /\ \A i \in 1..Len(sent') : sent'[i].msg = Payload]_vars

\* A room broadcast that excludes one member of the room has reached the other.
C13_ExcludedMemberSkipped ==
    /\ last.op = "broadcastToRoom"
    /\ includes(RoomList(last.room), last.c)
    /\ \E c \in Accepted : c # last.c /\ SentTo(sent, c) # {}

\* C14: broadcastToRole(role, m) writes m to exactly the registered connections
\* with an open transport whose currently bound role is the queried role: a
\* connection with another role or with no identity is written nothing, and a
\* connection that authenticated again counts with its latest role only.
C14_RoleBroadcastTargets ==
    last.op = "broadcastToRole" =>
        /\ \A c \in Accepted :
              SentTo(sent, c) # {}
                  <=> (/\ c \in DOMAIN clients
                       /\ ws[c] = "OPEN"
                       /\ clients[c].role = last.role)
        /\ \A i \in 1..Len(sent) : sent[i].msg = Payload

\* A connection that authenticated as u2 (housekeeping) and then as u1 with
\* the role guest has been reached by a broadcast to the role guest.
C14_LatestRoleMatched ==
    /\ last.op = "broadcastToRole"
    /\ last.role = "guest"
    /\ \E c \in DOMAIN clients :
          /\ includes(UserList("u2"), c)
          /\ clients[c].userId = "u1"
          /\ SentTo(sent, c) # {}

\* C15, the frame: a close or an error of one connection leaves every other
\* connection registered, with its identity and lastPing, its transport, its
\* places in the user index and its room memberships unchanged.
C15_OthersUntouched ==
    [][last'.op \in RemovalOps =>
        \A d \in DOMAIN clients \ {last'.c} :
            /\ d \in DOMAIN clients'
            /\ clients'[d] = clients[d]
            /\ ws'[d] = ws[d]
            /\ \A u \in Users :
                  includes(UserGet(userConnections', u), d)
                      <=> includes(UserList(u), d)
            /\ \A r \in Rooms :
                  includes(RoomGet(roomConnections', r), d)
                      <=> includes(RoomList(r), d)]_vars

\* C15, afterwards: once a connection has been removed, a heartbeat tick
\* still probes every open connection it does not evict, and a broadcast
\* still reaches every registered open connection.
C15_KeepsOperating ==
    /\ [][(removed # {} /\ last'.op = "tick") =>
            \A d \in DOMAIN clients \ Evicted :
                ws[d] = "OPEN"
                    => CountSent(sent', d, "ping_frame", NONE) = 1]_vars
    /\ []((removed # {} /\ last.op = "broadcastToAll") =>
            \A d \in DOMAIN clients :
                ws[d] = "OPEN" => SentTo(sent, d) # {})

\* C15: a transport error or close on one connection cleans up that
\* connection only, and the heartbeat and later broadcasts keep operating.
C15_RemovalIsolated == C15_OthersUntouched /\ C15_KeepsOperating

\* A registered connection has been closed, or has had an error, next to a
\* peer bound to u1 in room 101 that was told about it.
C15_PeerSurvivesRemoval ==
    /\ last.op \in RemovalOps
    /\ last.live
    /\ \E d \in DOMAIN clients :
          /\ includes(UserList("u1"), d)
          /\ includes(RoomList("101"), d)
          /\ CountSent(sent, d, "user_left", "101") = 1

\* The open members of room r other than c.
OpenPeers(r, c) ==
    {b \in Elems(RoomList(r)) \ {c} : b \in DOMAIN clients /\ ws[b] = "OPEN"}

\* C16: a broadcast to room r is received by all its open members, A and B;
\* when A then closes, B receives one user_left for r that carries A's bound
\* userId and A receives nothing; A receives nothing later either, is a
\* member of no room, and a later broadcast to r is received by B only.
C16_CloseThenBroadcast ==
    /\ [](last.op = "broadcastToRoom" /\ last.c = 0 =>
            \A c \in Accepted :
                SentTo(sent, c) # {} <=> c \in OpenPeers(last.room, 0))
    /\ [][(last'.op = "close" /\ last'.live) =>
            /\ SentTo(sent', last'.c) = {}
            /\ \A r \in Rooms : \A b \in Accepted \ {last'.c} :
                  LET left == Envelope("user_left", NONE,
                                       clients[last'.c].userId, r)
                  IN /\ \A i \in SentTo(sent', b) :
                           sent'[i].msg.room = r => sent'[i].msg = left
                     /\ CountSent(sent', b, "user_left", r) =
                           IF /\ includes(RoomList(r), last'.c)
                              /\ b \in OpenPeers(r, last'.c)
                           THEN 1 ELSE 0]_vars
    /\ [](\A c \in Accepted : ws[c] = "CLOSED" =>
            /\ SentTo(sent, c) = {}
            /\ c \notin DOMAIN clients
            /\ \A r \in Rooms : ~includes(RoomList(r), c))

\* Connection A, bound to u1 and a member of room 101, has closed and member
\* B has been written the user_left that names u1.
C16_PeerToldOfClose ==
    /\ last.op = "close"
    /\ last.live
    /\ \E b \in DOMAIN clients :
          /\ includes(RoomList("101"), b)
          /\ \E i \in SentTo(sent, b) :
                sent[i].msg = Envelope("user_left", NONE, "u1", "101")

\* The latest handler wrote the authentication acknowledgment to c.
Acknowledged(log, c) ==
    \E i \in SentTo(log, c) : log[i].msg.text = "Authentication successful"

\* C17: when the acknowledgment of an authenticate has been written, the
\* connection carries the userId and the role of the request and is listed
\* under that userId; every later broadcastToUser for its bound userId and
\* broadcastToRole for its bound role is written to it while it is open.
C17_BoundBeforeAck ==
    /\ [][(last'.op = "authenticate" /\ Acknowledged(sent', last'.c)) =>
            /\ last'.c \in DOMAIN clients'
            /\ clients'[last'.c].userId = last'.userId
            /\ clients'[last'.c].role = last'.role
            /\ includes(UserGet(userConnections', last'.userId), last'.c)]_vars
    /\ [](last.op = "broadcastToUser" =>
            \A c \in DOMAIN clients :
                (clients[c].userId = last.userId /\ ws[c] = "OPEN")
                    => SentTo(sent, c) # {})
    /\ [](last.op = "broadcastToRole" =>
            \A c \in DOMAIN clients :
                (clients[c].role = last.role /\ ws[c] = "OPEN")
                    => SentTo(sent, c) # {})

\* A connection has authenticated with a room and has been acknowledged
\* after a member of the room was told that its user joined.
C17_AcknowledgedWithRoom ==
    /\ last.op = "authenticate"
    /\ last.room = "101"
    /\ Acknowledged(sent, last.c)
    /\ \E b \in DOMAIN clients \ {last.c} :
          \E i \in SentTo(sent, b) :
              sent[i].msg = Envelope("user_joined", NONE, last.userId, "101")

\* C18: a join_room by a connection not yet in the room writes exactly one
\* user_joined to every other open member and none to the joiner; a
\* leave_room by a member writes exactly one user_left to every remaining open
\* member and none to the leaver; an eviction writes exactly one user_left to
\* every remaining open member of each room of the evicted connection and
\* none to that connection.
C18_MembershipNotices ==
    /\ [][(/\ last'.op = "join_room"
            /\ last'.room # NONE
            /\ last'.live
            /\ ~includes(RoomList(last'.room), last'.c)) =>
            \A b \in Accepted :
                CountSent(sent', b, "user_joined", last'.room)
                    = IF b \in OpenPeers(last'.room, last'.c) THEN 1 ELSE 0]_vars
    /\ [][(/\ last'.op = "leave_room"
            /\ last'.room # NONE
            /\ last'.live
            /\ includes(RoomList(last'.room), last'.c)) =>
            \A b \in Accepted :
                CountSent(sent', b, "user_left", last'.room)
                    = IF b \in OpenPeers(last'.room, last'.c) THEN 1 ELSE 0]_vars
    /\ [][last'.op = "tick" =>
            \A b \in Accepted : \A r \in Rooms :
                CountSent(sent', b, "user_left", r)
                    = Cardinality(EvictionsSeenBy(b, r))]_vars

\* A tick has evicted a member of room 101 and the one remaining member, whose
\* transport is open, has been written one user_left.
C18_MemberToldOfEviction ==
    /\ last.op = "tick"
    /\ \E b \in DOMAIN clients :
          /\ RoomList("101") = <<b>>
          /\ ws[b] = "OPEN"
          /\ CountSent(sent, b, "user_left", "101") = 1
          /\ CountSent(sent, b, "user_left", "102") = 0

\* C19: sendMessage(c, m) for an id that is not registered, or whose transport
\* is not OPEN, writes nothing, raises no error and leaves the primary map and
\* both indices unchanged.
C19_SendToAbsentIsNoOp ==
    [][(/\ last'.op = "sendMessage"
        /\ last'.c \notin DOMAIN clients \/ ws[last'.c] # "OPEN") =>
        /\ sent' = <<>>
        /\ ~thrown'
        /\ clients' = clients
        /\ userConnections' = userConnections
        /\ roomConnections' = roomConnections
        /\ ws' = ws]_vars

\* sendMessage has been called for a registered connection whose transport is
\* closing and would raise an error on send, with both indices populated.
C19_SendToClosing ==
    /\ last.op = "sendMessage"
    /\ last.live
    /\ last.c \in faulty
    /\ ws[last.c] = "CLOSING"
    /\ DOMAIN userConnections # {}
    /\ roomConnections # <<>>

\* C20: once the shutdown of the process has begun, no new connection is
\* accepted and a broadcast is rejected: it is written to no connection.
\* (That every registered connection is evicted is the part of the claim a
\* finite run cannot refute.)
C20_ShutdownRejectsBroadcasts ==
    ~listening =>
        /\ last.op # "connection"
        /\ last.op \in BroadcastOps => sent = <<>>

\* C21: getStats() reports activeRooms equal to the number of rooms that have
\* at least one member, and authenticatedUsers equal to the number of distinct
\* userIds bound to at least one registered connection.
C21_StatsCountRoomsAndUsers ==
    /\ getStats(State).activeRooms
          = Cardinality({r \in Rooms : RoomList(r) # <<>>})
    /\ getStats(State).authenticatedUsers
          = Cardinality({u \in Users :
                \E c \in DOMAIN clients : clients[c].userId = u})

\* The connectionsByRole count of a role, 0 for a role without a key.
RoleCount(stats, r) ==
    IF r \in DOMAIN stats.connectionsByRole
    THEN stats.connectionsByRole[r] ELSE 0

\* C22: getStats() reports totalConnections equal to the number of registered
\* connections and, for every role, connectionsByRole equal to the number of
\* registered connections whose current role it is; the counts of the roles
\* add up to the number of connections with a role, at most totalConnections.
C22_StatsCountConnections ==
    LET stats == getStats(State)
        bound == {c \in DOMAIN clients : clients[c].role # NONE}
    IN /\ stats.totalConnections = Cardinality(DOMAIN clients)
       /\ stats.totalConnections = Len(ws) - Cardinality(removed \cap Accepted)
       /\ \A r \in Roles :
             RoleCount(stats, r)
                 = Cardinality({c \in DOMAIN clients : clients[c].role = r})
       /\ DOMAIN stats.connectionsByRole \subseteq Roles
       /\ RoleCount(stats, "housekeeping") + RoleCount(stats, "guest")
             = Cardinality(bound)
       /\ Cardinality(bound) <= stats.totalConnections

\* One connection has been removed, one changed its role from housekeeping to
\* guest and is the only one counted.
C22_StatsAfterRoleChange ==
    /\ removed # {}
    /\ getStats(State).totalConnections = 1
    /\ getStats(State).connectionsByRole = [r \in {"guest"} |-> 1]
    /\ \E c \in DOMAIN clients : includes(UserList("u2"), c)

\* C23: a ticket producer issues its broadcast only after its database write
\* has been committed, and issues none for a write that failed: a handler
\* that writes a ticket_update, or reaches its notification, belongs to a
\* persisted request, and a request whose write failed never notifies.
C23_NotifyAfterPersist ==
    /\ [][(last'.op \in ProducerOps /\ sent' # <<>>) =>
            /\ last'.c \in persisted
            /\ requests[last'.c].pc = "written"]_vars
    /\ [](\A r \in 1..Len(requests) :
            requests[r].pc = "notified" => r \in persisted)
    /\ [][\A r \in 1..Len(requests) :
            requests[r].pc \in {"failed", "error", "rejected"} =>
                /\ requests'[r].pc \in {"failed", "error", "rejected"}
                /\ (last'.op \in ProducerOps /\ last'.c = r) => sent' = <<>>]_vars

\* One request has ended in its catch after a rejected write, with a
\* housekeeping connection open, and another has notified that connection.
C23_FailedAndNotified ==
    /\ \E r \in 1..Len(requests) : requests[r].pc = "error"
    /\ last.op \in ProducerOps
    /\ requests[last.c].pc = "notified"
    /\ sent # <<>>

MessageOps == {m.type : m \in Messages}

Occurrences(arr, x) == Cardinality({i \in 1..Len(arr) : arr[i] = x})

\* Connection c authenticated exactly once, as u, and no other registered
\* connection is bound to u.
OnlyBinding(c, u) ==
    /\ c \in DOMAIN clients
    /\ clients[c].userId = u
    /\ Occurrences(UserList(u), c) = 1
    /\ \A v \in Users \ {u} : ~includes(UserList(v), c)
    /\ \A d \in DOMAIN clients \ {c} : clients[d].userId # u

\* C25: when the one connection bound to u1, which authenticated exactly
\* once, is removed, the user index has no key u1 afterwards, so that
\* broadcastToUser(u1, m) finds no connection to deliver to.
C25_UserKeyRemoved ==
    [][(last'.op \in RemovalOps /\ OnlyBinding(last'.c, "u1"))
        => "u1" \notin DOMAIN userConnections']_vars

\* now - lastPing of connection c as the tick that fires now reads it.
AgeAtTick(c) == now + HEARTBEAT_INTERVAL - clients[c].lastPing

\* C26: a heartbeat tick treats every registered connection in exactly one of
\* two ways: with now - lastPing strictly above the timeout its transport is
\* terminated and it is removed without a probe; otherwise, also when the
\* difference equals the timeout, it stays registered and is probed once.  So
\* a registered connection is never more than the timeout past its last pong
\* after a tick.
C26_TickTreatsEachOnce ==
    /\ [][last'.op = "tick" =>
            \A c \in DOMAIN clients :
                IF AgeAtTick(c) > HEARTBEAT_TIMEOUT
                THEN /\ c \notin DOMAIN clients'
                     /\ ws'[c] = "CLOSING"
                     /\ CountSent(sent', c, "ping_frame", NONE) = 0
                ELSE /\ c \in DOMAIN clients'
                     /\ ws'[c] = ws[c]
                     /\ clients'[c].lastPing = clients[c].lastPing - HEARTBEAT_INTERVAL
                     /\ CountSent(sent', c, "ping_frame", NONE)
                           = IF ws[c] = "OPEN" THEN 1 ELSE 0]_vars
    /\ [](\A c \in DOMAIN clients :
            now - clients[c].lastPing <= HEARTBEAT_TIMEOUT)

\* A tick has found a connection exactly the timeout past its last pong and
\* has probed it.
C26_ProbedAtTheWindow ==
    /\ last.op = "tick"
    /\ \E c \in DOMAIN clients :
          /\ now - clients[c].lastPing = HEARTBEAT_TIMEOUT
          /\ CountSent(sent, c, "ping_frame", NONE) = 1

\* C27: a pong sets lastPing to the current time, and a connection whose pong
\* was processed since the latest tick is at most one interval past it at the
\* next tick, which probes it again and does not evict it.
C27_AnsweringNeverEvicted ==
    /\ [][(last'.op = "pong" /\ last'.c \in DOMAIN clients) =>
            /\ clients'[last'.c].lastPing >= now
            /\ clients'[last'.c].lastPing < now + HEARTBEAT_INTERVAL]_vars
    /\ [][last'.op = "tick" =>
            \A c \in DOMAIN clients :
                clients[c].lastPing >= now =>
                    /\ AgeAtTick(c) <= HEARTBEAT_INTERVAL
                    /\ c \in DOMAIN clients'
                    /\ c \notin removed'
                    /\ ws[c] = "OPEN" =>
                          CountSent(sent', c, "ping_frame", NONE) = 1]_vars

\* Connection 1, accepted before connection 2, is probed by the tick that
\* finds it within one interval of its last pong, after connection 2 has been
\* evicted for its silence.
C27_SurvivesSilentPeer ==
    /\ last.op = "tick"
    /\ 1 \in DOMAIN clients
    /\ 2 \in removed
    /\ ws[2] = "CLOSING"
    /\ now - clients[1].lastPing <= HEARTBEAT_INTERVAL
    /\ CountSent(sent, 1, "ping_frame", NONE) = 1

\* C28: a ping message is answered with exactly one system_message to its
\* sender and changes neither the sender's lastPing or identity nor an index;
\* lastPing is assigned by the pong handler only (a tick moves the origin of
\* the clock), so a connection that sends ping messages without answering the
\* probes is evicted like a silent one.
C28_PingMessageIsNoSignOfLife ==
    /\ [][(last'.op = "ping" /\ last'.c \in DOMAIN clients) =>
            /\ sent' = IF ws[last'.c] = "OPEN"
                       THEN <<[to |-> last'.c, msg |-> SystemMessage("pong")]>>
                       ELSE <<>>
            /\ clients' = clients
            /\ userConnections' = userConnections
            /\ roomConnections' = roomConnections]_vars
    /\ [][\A c \in DOMAIN clients \cap DOMAIN clients' :
            clients'[c].lastPing # clients[c].lastPing =>
                \/ last'.op = "pong" /\ last'.c = c
                \/ /\ last'.op = "tick"
                   /\ clients'[c].lastPing
                         = clients[c].lastPing - HEARTBEAT_INTERVAL]_vars
    /\ C9_EventuallyEvicted

\* A connection exactly the timeout past its last pong has sent a ping
\* message and has been answered.
C28_PingAtTheWindow ==
    /\ last.op = "ping"
    /\ last.live
    /\ now - clients[last.c].lastPing = HEARTBEAT_TIMEOUT
    /\ sent = <<[to |-> last.c, msg |-> SystemMessage("pong")]>>

\* C29: an authenticate with roomNumber r makes the connection a member of r
\* in the same handler; every other open member of r is written a user_joined
\* carrying the new userId before the acknowledgment is written to the
\* authenticating connection; afterwards a broadcastToRoom(r, m) reaches it.
\* An authenticate without roomNumber leaves the room index unchanged.
C29_AuthenticateJoinsRoom ==
    /\ [][(/\ last'.op = "authenticate"
            /\ last'.c \in DOMAIN clients
            /\ last'.room # NONE) =>
            /\ includes(RoomGet(roomConnections', last'.room), last'.c)
            /\ ws[last'.c] = "OPEN" => Acknowledged(sent', last'.c)
            /\ \A b \in OpenPeers(last'.room, last'.c) :
                  \E i \in SentTo(sent', b) :
                      /\ sent'[i].msg = Envelope("user_joined", NONE,
                                                 last'.userId, last'.room)
                      /\ \A j \in SentTo(sent', last'.c) : i < j]_vars
    /\ [][(last'.op = "authenticate" /\ last'.room = NONE)
            => roomConnections' = roomConnections]_vars
    /\ [](last.op = "broadcastToRoom" =>
            \A c \in OpenPeers(last.room, last.c) : SentTo(sent, c) # {})

\* An authenticate with room 101 has written user_joined to the member of the
\* room and then the acknowledgment to its sender, now a member too.
C29_JoinedThenAcknowledged ==
    /\ last.op = "authenticate"
    /\ Len(sent) = 2
    /\ sent[1].to # last.c
    /\ sent[1].msg.type = "user_joined"
    /\ sent[2].to = last.c
    /\ sent[2].msg.text = "Authentication successful"
    /\ includes(RoomList("101"), last.c)

\* The latest inbound message, described by op, is one whose handling fails:
\* unparseable data, or authenticate, join_room or leave_room without payload.
HandlingFails(op) ==
    \/ op.op = "unparseable"
    \/ op.op = "authenticate" /\ op.userId = NONE
    \/ op.op \in {"join_room", "leave_room"} /\ op.room = NONE

\* C30: an inbound message whose handling fails leaves the primary map, the
\* sender's identity, the user index and the room index as they were, writes
\* nothing to any other connection and writes one system_message error to
\* the sender.
C30_FailedMessageChangesNothing ==
    [][(HandlingFails(last') /\ last'.c \in DOMAIN clients) =>
        /\ clients' = clients
        /\ userConnections' = userConnections
        /\ roomConnections' = roomConnections
        /\ sent' = IF ws[last'.c] = "OPEN"
                   THEN <<[to |-> last'.c,
                           msg |-> SystemMessage("Invalid message format")]>>
                   ELSE <<>>]_vars

\* A join_room without payload from a connection bound to an identity has
\* been answered with the error, next to an open member of room 101.
C30_MissingPayloadRejected ==
    /\ last.op = "join_room"
    /\ last.room = NONE
    /\ last.live
    /\ clients[last.c].userId # NONE
    /\ sent = <<[to |-> last.c, msg |-> SystemMessage("Invalid message format")]>>
    /\ \E b \in DOMAIN clients \ {last.c} :
          includes(RoomList("101"), b) /\ ws[b] = "OPEN"

====
